---- MODULE Spec2Model ----
(***************************************************************************)
(* Model of package stack (src/stack/stack.go): ParseDump, the Signature   *)
(* comparators Equal and Less, and Bucketize.                              *)
(*                                                                         *)
(* A Go string is modelled as a sequence of chunks.  A chunk is a run of   *)
(* characters that every regular expression of the package treats as one   *)
(* unit (a literal such as "goroutine ", a run of digits, a path segment). *)
(* The reader delivers raw lines (the bytes between two "\n"); the line    *)
(* ParseDump works on is the string scanner.Text() returns for it.         *)
(***************************************************************************)
EXTENDS Integers, Sequences, FiniteSets, TLC

VARIABLES
    pc,          \* position of ParseDump: "scan" (in the for loop), "done" (returned), "panic" (aborted)
    err,         \* the error ParseDump returns; "nil" until then
    input,       \* the lines scanner.Scan() has delivered so far, in order
    text,        \* history: the raw lines the reader held for them (before dropCR)
    goroutines,  \* local goroutines []Goroutine
    goroutine,   \* local goroutine *Goroutine: 0 is nil, else the index it points at
    created,     \* local created bool
    out,         \* the lines written to out io.Writer, each followed by "\n"
    hdrAt,       \* history: for each routine, the index in input of its header line
    callAt,      \* history: for each routine, the indices in input of its function lines
    bkIn,        \* Bucketize: argument goroutines
    bkI,         \* Bucketize: number of routines the outer loop has handled
    bkOut,       \* Bucketize: map out, from key (a pointer, numbered by allocation) to
                 \*            [key |-> the Signature it points at, routines |-> the slice]
    bkPc,        \* Bucketize: "idle", "loop", "done"
    bkSorted,    \* SortBuckets: the Buckets it returned
    bkSortPc,    \* SortBuckets: "idle", "done"
    sa, sb,      \* the two signatures a comparator is applied to: l and r
    cancel,      \* the caller has fired its cancellation signal
    recv,        \* the Call an accessor is applied to
    goroot,      \* the package variable goroot: what runtime.GOROOT() returned
    second,      \* a second call of ParseDump, on a reader and a writer of its own:
                 \*   [st |-> its locals and its out, input |-> the raw lines its reader
                 \*    still holds, text |-> the raw lines it has read,
                 \*    mixed |-> it read a line while the first call had created set]
    ret,         \* the accessor call made: [op |-> its name, panic |-> it aborted, val |-> its result]
    cmp          \* the comparator call made: [op |-> "none" | "Equal" | "Less", res |-> its result]

vars == <<pc, err, input, text, goroutines, goroutine, created, out, hdrAt, callAt,
          bkIn, bkI, bkOut, bkPc, bkSorted, bkSortPc, sa, sb, cmp, cancel,
          recv, goroot, ret, second>>

parseVars == <<pc, err, input, text, goroutines, goroutine, created, out, hdrAt, callAt>>
bucketVars == <<bkIn, bkI, bkOut, bkPc, bkSorted, bkSortPc>>
sigVars == <<sa, sb, cmp>>
envVars == <<cancel, recv, goroot, ret, second>>

-----------------------------------------------------------------------------
(* Bounds *)

\* Longest input, in lines, that the reader delivers.
MaxLines == 5

\* Deepest stack of the signatures the comparators are applied to.
MaxStackLen == 2

\* Longest routine list handed to Bucketize directly.
MaxRoutines == 3

-----------------------------------------------------------------------------
(* Strings and the input lines *)

EmptyStr == <<>>

\* Runs of decimal digits that occur in the inputs.
DigitRuns == {"1", "2", "153", "9223372036854775808"}

\* Digit runs whose value exceeds the largest int (2^63 - 1).
TooBig == {"9223372036854775808"}

DecValue(ch) ==
    CASE ch = "1" -> 1
      [] ch = "2" -> 2
      [] ch = "153" -> 153
      [] OTHER -> 0

\* Mutant of Atoi: a digit run that is out of range is accepted.
AtoiNoRange(s) ==
    IF Len(s) = 1 /\ s[1] \in DigitRuns
    THEN [ok |-> TRUE, val |-> DecValue(s[1])]
    ELSE [ok |-> FALSE, val |-> 0]

\* strconv.Atoi
Atoi(s) ==
    IF Len(s) = 1 /\ s[1] \in DigitRuns /\ s[1] \notin TooBig
    THEN [ok |-> TRUE, val |-> DecValue(s[1])]
    ELSE [ok |-> FALSE, val |-> 0]

\* Chunks that hold a "]".
RBracketChunks == {"]:", "]"}

\* Chunks " +0x[0-9a-f]+".
OffsetChunks == {" +0xc6"}

\* Chunks "\t" or " +" (one or more spaces).
IndentChunks == {"\t", " ", "  "}

NoMatch == [ok |-> FALSE, g1 |-> EmptyStr, g2 |-> EmptyStr]

\* reRoutineHeader = "^goroutine (\d+) \[([^\]]+)\]\:$"
reRoutineHeader(line) ==
    LET n == Len(line) IN
    IF /\ n >= 5
       /\ line[1] = "goroutine "
       /\ line[2] \in DigitRuns
       /\ line[3] = " ["
       /\ line[n] = "]:"
       /\ \A i \in 4..(n - 1) : line[i] \notin RBracketChunks
    THEN [ok |-> TRUE, g1 |-> <<line[2]>>, g2 |-> SubSeq(line, 4, n - 1)]
    ELSE NoMatch

\* reFile = "^(?:\t| +)(\<autogenerated\>|.+\.go)\:(\d+)(?:| \+0x[0-9a-f]+)$"
reFile(line) ==
    LET n == Len(line)
        m == IF n >= 1 /\ line[n] \in OffsetChunks THEN n - 1 ELSE n
        path == SubSeq(line, 2, m - 2)
    IN
    IF /\ m >= 4
       /\ line[1] \in IndentChunks
       /\ line[m] \in DigitRuns
       /\ line[m - 1] = ":"
       /\ \/ path = <<"<autogenerated>">>
          \/ Len(path) >= 2 /\ path[Len(path)] = ".go"
    THEN [ok |-> TRUE, g1 |-> path, g2 |-> <<line[m]>>]
    ELSE NoMatch

\* reCreated = "^created by (.+)$"
reCreated(line) ==
    IF Len(line) >= 2 /\ line[1] = "created by "
    THEN [ok |-> TRUE, g1 |-> Tail(line), g2 |-> EmptyStr]
    ELSE NoMatch

\* reFunc = "^(.+)\((.*)\)$"; the greedy (.+) ends at the last "(".
reFunc(line) ==
    LET n == Len(line)
        opens == {j \in 2..(n - 1) : line[j] = "("}
    IN
    IF n >= 3 /\ line[n] = ")" /\ opens # {}
    THEN LET j == CHOOSE k \in opens : \A o \in opens : o <= k
         IN [ok |-> TRUE, g1 |-> SubSeq(line, 1, j - 1), g2 |-> SubSeq(line, j + 1, n - 1)]
    ELSE NoMatch

\* Mutant of ScanLines: the trailing "\r" is kept.
ScanLinesKeepCR(raw) == raw

\* bufio.ScanLines: the token is the raw line without a trailing "\r" (dropCR).
ScanLines(raw) ==
    IF Len(raw) > 0 /\ raw[Len(raw)] = "\r" THEN SubSeq(raw, 1, Len(raw) - 1) ELSE raw

Blank == <<>>
HdrRunning == <<"goroutine ", "1", " [", "running", "]:">>
HdrChanSend == <<"goroutine ", "2", " [", "chan send", "]:">>
HdrBigID == <<"goroutine ", "9223372036854775808", " [", "running", "]:">>
HdrWait100 == <<"goroutine ", "1", " [", "chan send", ", ", "100 minutes", "]:">>
HdrWait101 == <<"goroutine ", "2", " [", "chan send", ", ", "101 minutes", "]:">>
FuncMain == <<"main.main", "(", ")">>
FuncHandleErr == <<"gopkg.in/yaml%2ev2.handleErr", "(", "0x433b20", ")">>
FileYaml == <<"\t", "/", "gopath", "/", "yaml", ".go", ":", "153", " +0xc6">>
FileBig == <<"\t", "/", "gopath", "/", "yaml", ".go", ":", "9223372036854775808">>
CreatedNew == <<"created by ", "stack.New">>
Junk == <<"panic: bleh">>

\* The raw lines the reader of specification Spec may deliver.
Lines == {Blank, HdrRunning, HdrChanSend, HdrBigID, FuncMain, FuncHandleErr, FileYaml,
          FileBig, CreatedNew, Junk}

\* The raw lines the reader of specification SpecPipe may deliver.
PipeLines == {Blank, HdrWait100, HdrWait101, FuncMain, FileYaml, CreatedNew}

\* A function line with an argument above 2^64, the marker the runtime prints
\* for the frames it left out, and the line it prints for a routine whose stack
\* it cannot read.
FuncBigArg == <<"main.main", "(", "123456789012345678901", ")">>
ElidedLine == <<"...additional frames elided...">>
UnavailLine == <<"\t", "goroutine running on other thread; stack unavailable">>

\* Headers with the "locked to thread" suffix, alone and after the minutes.
HdrLocked == <<"goroutine ", "2", " [", "chan send", ", ", "locked to thread", "]:">>
HdrWaitLocked ==
    <<"goroutine ", "1", " [", "chan send", ", ", "101 minutes", ", ", "locked to thread", "]:">>

\* File lines of an assembly file with the frame registers, and of an unknown
\* file indented by a space.
FileAsm == <<"\t", "/", "goroot", "/", "asm_amd64", ".s", ":", "153",
             " fp=0xc20cfb80d8 sp=0xc20cfb80d0">>
FileUnknown == <<" ", "??", ":", "1", " +0x6d">>

\* The raw lines the reader of specification SpecForms may deliver.
FormLines == {Blank, HdrRunning, HdrWait100, HdrLocked, HdrWaitLocked, FuncMain,
              FileYaml, FileAsm, FileUnknown, CreatedNew}

\* A dump printed at column 2: every line of the routine starts with two
\* spaces; and a file line indented by a space and a tab instead.
HdrIndented == <<"  ", "goroutine ", "1", " [", "running", "]:">>
FuncIndented == <<"  ", "main.main", "(", ")">>
FileIndented == <<"  ", "\t", "/", "gopath", "/", "yaml", ".go", ":", "153", " +0xc6">>
FileSpaceTab == <<" ", "\t", "/", "gopath", "/", "yaml", ".go", ":", "153", " +0xc6">>

\* The raw lines the reader of specification SpecIndent may deliver.
IndentLines == {Blank, HdrRunning, FuncMain, FileYaml, CreatedNew, Junk,
                HdrIndented, FuncIndented, FileIndented, FileSpaceTab}

\* The raw lines the reader of specification SpecCRLF may deliver: the lines of
\* a text whose line endings are "\r\n", each with its "\r".
CRLFLines ==
    {Append(l, "\r") : l \in {Blank, HdrRunning, HdrChanSend, FuncHandleErr, FileYaml,
                               FileBig, CreatedNew, Junk}}

\* The lines of a report of the race detector.
RaceSep == <<"==================">>
RaceWarning == <<"WARNING: DATA RACE">>
RaceRead == <<"Read at ", "0x00c0000e4030", " by goroutine ", "2", ":">>
RacePrevWrite == <<"Previous write at ", "0x00c0000e4030", " by goroutine ", "1", ":">>
RaceCreatedAt == <<"Goroutine ", "2", " (", "running", ") created at:">>

\* The raw lines the reader of specification SpecRace may deliver.
RaceLines == {Blank, HdrRunning, FuncMain, FileYaml, CreatedNew,
              RaceSep, RaceWarning, RaceRead, RacePrevWrite, RaceCreatedAt}

\* The raw lines the reader of specification SpecShapes may deliver.
ShapeLines == {Blank, HdrRunning, FuncMain, FuncBigArg, FileYaml, CreatedNew,
               ElidedLine, UnavailLine, Junk}

-----------------------------------------------------------------------------
(* The data model *)

\* type Function struct
Function(raw) == [Raw |-> raw]

\* type Call struct
Call(path, line, fn, args) ==
    [SourcePath |-> path, Line |-> line, Func |-> fn, Args |-> args]

\* The zero value of Call.
ZeroCall == Call(EmptyStr, 0, Function(EmptyStr), EmptyStr)

\* type Signature struct
Signature(state, stack, createdBy) ==
    [State |-> state, Stack |-> stack, CreatedBy |-> createdBy]

\* type Goroutine struct: the embedded Signature, ID and First.
Goroutine(sig, id, first) == [Signature |-> sig, ID |-> id, First |-> first]


-----------------------------------------------------------------------------
(* ParseDump *)

\* Mutant of WriteString: the line is not written.
WriteStringDropped(w, line) == w

\* io.WriteString(out, line+"\n")
WriteString(w, line) == Append(w, line)

\* Mutant of AppendGoroutine: First is set on every routine.
AppendGoroutineAllFirst(gs, state, id) ==
    Append(gs, [Signature |-> [State |-> state, Stack |-> <<>>,
                               CreatedBy |-> [SourcePath |-> <<>>, Line |-> 0,
                                              Func |-> [Raw |-> <<>>], Args |-> <<>>]],
                ID |-> id, First |-> TRUE])

\* goroutines = append(goroutines, Goroutine{Signature{State: match[2], Stack: []Call{}},
\*                                           ID: id, First: len(goroutines) == 0})
AppendGoroutine(gs, state, id) ==
    Append(gs, Goroutine(Signature(state, <<>>, ZeroCall), id, Len(gs) = 0))

\* Mutant of AppendCall: the new call is put in front of the stack.
AppendCallInFront(stack, raw, args) ==
    <<[SourcePath |-> <<>>, Line |-> 0, Func |-> [Raw |-> raw], Args |-> args]>> \o stack

\* goroutine.Stack = append(goroutine.Stack, Call{Func: Function{match[1]}, Args: match[2]})
AppendCall(stack, raw, args) ==
    Append(stack, Call(EmptyStr, 0, Function(raw), args))

\* goroutine.Stack[i].SourcePath = match[1]; goroutine.Stack[i].Line = num
SetTopFile(stack, path, num) ==
    [stack EXCEPT ![Len(stack)] = [@ EXCEPT !.SourcePath = path, !.Line = num]]

\* goroutine.CreatedBy.SourcePath = match[1]; goroutine.CreatedBy.Line = num
SetCreatedFile(cb, path, num) == [cb EXCEPT !.SourcePath = path, !.Line = num]

\* goroutine.CreatedBy.Func.Raw = match[1]
SetCreatedFunc(cb, raw) == [cb EXCEPT !.Func = Function(raw)]

\* The for loop runs while scanner.Scan() delivers a line.
Scanning == pc = "scan" /\ Len(input) < MaxLines

\* if len(line) == 0 { ... continue }
ScanBlank(raw, line) ==
    /\ Scanning
    /\ Len(line) = 0
    /\ input' = Append(input, line)
    /\ text' = Append(text, raw)
    /\ out' = IF goroutine = 0 THEN WriteString(out, line) ELSE out
    /\ goroutine' = 0
    /\ UNCHANGED <<pc, err, goroutines, created, hdrAt, callAt>>
    /\ UNCHANGED <<bucketVars, sigVars, envVars>>

\* if goroutine == nil { ... continue }
ScanPrelude(raw, line) ==
    /\ Scanning
    /\ Len(line) # 0
    /\ goroutine = 0
    /\ input' = Append(input, line)
    /\ text' = Append(text, raw)
    /\ LET match == reRoutineHeader(line)
           id == Atoi(match.g1)
       IN IF match.ok /\ id.ok
          THEN /\ goroutines' = AppendGoroutine(goroutines, match.g2, id.val)
               /\ goroutine' = Len(goroutines')
               /\ hdrAt' = Append(hdrAt, Len(input'))
               /\ callAt' = Append(callAt, <<>>)
               /\ out' = out
          ELSE /\ out' = WriteString(out, line)
               /\ UNCHANGED <<goroutines, goroutine, hdrAt, callAt>>
    /\ UNCHANGED <<pc, err, created>>
    /\ UNCHANGED <<bucketVars, sigVars, envVars>>

\* if match := reFile.FindStringSubmatch(line); match != nil { ... }
ScanFile(raw, line) ==
    /\ Scanning
    /\ Len(line) # 0
    /\ goroutine # 0
    /\ reFile(line).ok
    /\ input' = Append(input, line)
    /\ text' = Append(text, raw)
    /\ LET match == reFile(line)
           num == Atoi(match.g2)
           g == goroutines[goroutine]
       IN IF ~num.ok
          THEN /\ pc' = "done"
               /\ err' = "failed to parse int on line"
               /\ UNCHANGED <<goroutines, created>>
          ELSE IF created
          THEN /\ created' = FALSE
               /\ goroutines' = [goroutines EXCEPT ![goroutine].Signature.CreatedBy =
                                    SetCreatedFile(@, match.g1, num.val)]
               /\ UNCHANGED <<pc, err>>
          ELSE IF Len(g.Signature.Stack) = 0
          THEN \* goroutine.Stack[-1]: index out of range, the program aborts
               /\ pc' = "panic"
               /\ UNCHANGED <<err, goroutines, created>>
          ELSE /\ goroutines' = [goroutines EXCEPT ![goroutine].Signature.Stack =
                                    SetTopFile(@, match.g1, num.val)]
               /\ UNCHANGED <<pc, err, created>>
    /\ UNCHANGED <<goroutine, out, hdrAt, callAt>>
    /\ UNCHANGED <<bucketVars, sigVars, envVars>>

\* } else if match := reCreated.FindStringSubmatch(line); match != nil { ... }
ScanCreated(raw, line) ==
    /\ Scanning
    /\ Len(line) # 0
    /\ goroutine # 0
    /\ ~reFile(line).ok
    /\ reCreated(line).ok
    /\ input' = Append(input, line)
    /\ text' = Append(text, raw)
    /\ created' = TRUE
    /\ goroutines' = [goroutines EXCEPT ![goroutine].Signature.CreatedBy =
                         SetCreatedFunc(@, reCreated(line).g1)]
    /\ UNCHANGED <<pc, err, goroutine, out, hdrAt, callAt>>
    /\ UNCHANGED <<bucketVars, sigVars, envVars>>

\* } else if match := reFunc.FindStringSubmatch(line); match != nil { ... }
ScanFunc(raw, line) ==
    /\ Scanning
    /\ Len(line) # 0
    /\ goroutine # 0
    /\ ~reFile(line).ok
    /\ ~reCreated(line).ok
    /\ reFunc(line).ok
    /\ input' = Append(input, line)
    /\ text' = Append(text, raw)
    /\ goroutines' = [goroutines EXCEPT ![goroutine].Signature.Stack =
                         AppendCall(@, reFunc(line).g1, reFunc(line).g2)]
    /\ callAt' = [callAt EXCEPT ![goroutine] = Append(@, Len(input'))]
    /\ UNCHANGED <<pc, err, goroutine, created, out, hdrAt>>
    /\ UNCHANGED <<bucketVars, sigVars, envVars>>

\* } else { io.WriteString(out, line+"\n"); goroutine = nil }
ScanJunk(raw, line) ==
    /\ Scanning
    /\ Len(line) # 0
    /\ goroutine # 0
    /\ ~reFile(line).ok
    /\ ~reCreated(line).ok
    /\ ~reFunc(line).ok
    /\ input' = Append(input, line)
    /\ text' = Append(text, raw)
    /\ out' = WriteString(out, line)
    /\ goroutine' = 0
    /\ UNCHANGED <<pc, err, goroutines, created, hdrAt, callAt>>
    /\ UNCHANGED <<bucketVars, sigVars, envVars>>

\* Mutant of ScanEOF: a routine still open at the end of the input is dropped.
ScanEOFDropsOpen ==
    /\ pc = "scan"
    /\ pc' = "done"
    /\ err' = "nil"
    /\ goroutines' = IF goroutine = 0 THEN goroutines
                     ELSE SubSeq(goroutines, 1, Len(goroutines) - 1)
    /\ UNCHANGED <<input, text, goroutine, created, out, hdrAt, callAt>>
    /\ UNCHANGED <<bucketVars, sigVars, envVars>>

\* scanner.Scan() returns false at the end of the input: return goroutines, scanner.Err()
ScanEOF ==
    /\ pc = "scan"
    /\ pc' = "done"
    /\ err' = "nil"
    /\ UNCHANGED <<input, text, goroutines, goroutine, created, out, hdrAt, callAt>>
    /\ UNCHANGED <<bucketVars, sigVars, envVars>>

\* scanner.Scan() returns false because the next line is longer than the
\* scanner's buffer (bufio.MaxScanTokenSize) or the reader failed:
\* return goroutines, scanner.Err()
ScanError ==
    /\ pc = "scan"
    /\ pc' = "done"
    /\ err' \in {"bufio.Scanner: token too long", "read error"}
    /\ UNCHANGED <<input, text, goroutines, goroutine, created, out, hdrAt, callAt>>
    /\ UNCHANGED <<bucketVars, sigVars, envVars>>

\* The caller fires its cancellation signal while ParseDump runs. ParseDump
\* takes a reader and a writer only: no step of it reads the signal.
Cancel ==
    /\ pc = "scan"
    /\ ~cancel
    /\ cancel' = TRUE
    /\ UNCHANGED <<recv, goroot, ret, second>>
    /\ UNCHANGED <<parseVars, bucketVars, sigVars>>

\* The state of ParseDump before the first scanner.Scan().
ParseInit ==
    /\ pc = "scan"
    /\ err = "nil"
    /\ input = <<>>
    /\ text = <<>>
    /\ goroutines = <<>>
    /\ goroutine = 0
    /\ created = FALSE
    /\ out = <<>>
    /\ hdrAt = <<>>
    /\ callAt = <<>>

-----------------------------------------------------------------------------
(* Signature.Equal and Signature.Less *)

\* The byte value of a one-character chunk; strings compared with < and > are
\* made of one-character chunks, so that their order is Go's byte-wise order.
ByteOf(ch) ==
    CASE ch = "." -> 46
      [] ch = "/" -> 47
      [] ch = "1" -> 49
      [] ch = "a" -> 97
      [] ch = "b" -> 98
      [] ch = "f" -> 102
      [] ch = "g" -> 103
      [] ch = "p" -> 112
      [] ch = "q" -> 113
      [] ch = "r" -> 114
      [] ch = "s" -> 115
      [] ch = "x" -> 120
      [] OTHER -> 0

\* The string comparison s < t of Go
StrLess(s, t) ==
    \E i \in 1..(Len(t)) :
        /\ \A k \in 1..(i - 1) : k <= Len(s) /\ s[k] = t[k]
        /\ \/ i = Len(s) + 1
           \/ i <= Len(s) /\ ByteOf(s[i]) < ByteOf(t[i])

\* The positions of the separators of a path.
Slashes(p) == {i \in 1..Len(p) : p[i] = "/"}

LastSlash(p) == CHOOSE i \in Slashes(p) : \A k \in Slashes(p) : k <= i

\* filepath.Base, for paths without a trailing separator
Base(p) ==
    IF p = EmptyStr THEN <<".">>
    ELSE IF p = <<"/">> THEN <<"/">>
    ELSE IF Slashes(p) = {} THEN p
    ELSE SubSeq(p, LastSlash(p) + 1, Len(p))

\* filepath.Dir, for clean paths
Dir(p) ==
    IF Slashes(p) = {} THEN <<".">>
    ELSE IF LastSlash(p) = 1 THEN <<"/">>
    ELSE SubSeq(p, 1, LastSlash(p) - 1)

\* filepath.Join of two clean elements, the second one a base name
Join(a, b) ==
    IF a = <<".">> THEN b
    ELSE IF b = <<".">> THEN a
    ELSE IF a = <<"/">> THEN IF b = <<"/">> THEN a ELSE a \o b
    ELSE a \o <<"/">> \o b

\* func (c *Call) SourceName() string
SourceName(c) == Base(c.SourcePath)

\* func (c *Call) PkgSource() string
PkgSource(c) == Join(Base(Dir(c.SourcePath)), SourceName(c))

\* strings.HasPrefix
StringsHasPrefix(s, prefix) ==
    Len(prefix) <= Len(s) /\ SubSeq(s, 1, Len(prefix)) = prefix

\* The positions of the "." of a string.
Dots(s) == {i \in 1..Len(s) : s[i] = "."}

\* strings.SplitN(s, ".", 2): the slice of the parts, one part when s has no "."
SplitN2(s) ==
    LET first == CHOOSE i \in Dots(s) : \A k \in Dots(s) : i <= k
    IN  IF Dots(s) = {} THEN <<s>>
        ELSE <<SubSeq(s, 1, first - 1), SubSeq(s, first + 1, Len(s))>>

\* parts[len(parts)-1] of strings.Split(s, "."): what follows the last "."
LastPart(s) ==
    LET last == CHOOSE i \in Dots(s) : \A k \in Dots(s) : k <= i
    IN  IF Dots(s) = {} THEN s ELSE SubSeq(s, last + 1, Len(s))

\* What url.QueryUnescape makes of one chunk: %69 is "i", %2e is ".".
UnescapeChunk(ch) ==
    CASE ch = "ma%69n" -> <<"main">>
      [] ch = "%2e" -> <<".">>
      [] OTHER -> <<ch>>

RECURSIVE QueryUnescape(_)
\* url.QueryUnescape, for strings whose escapes are all well formed
QueryUnescape(s) ==
    IF s = EmptyStr THEN EmptyStr
    ELSE UnescapeChunk(Head(s)) \o QueryUnescape(Tail(s))

\* The rune utf8.DecodeRuneInString returns: the first one of the string, and
\* RuneError for the empty string.
DecodeRuneInString(s) ==
    IF s = EmptyStr THEN "RuneError"
    ELSE CASE Head(s) = "main" -> "m"
           [] Head(s) = "ma%69n" -> "m"
           [] Head(s) = "handleErr" -> "h"
           [] Head(s) = "func2" -> "f"
           [] Head(s) = "findrunnable" -> "f"
           [] Head(s) = "Run" -> "R"
           [] Head(s) = "New" -> "N"
           [] Head(s) = "_Cfunc_DBIterSeek" -> "_"
           [] Head(s) = "0init" -> "0"
           [] OTHER -> "?"

\* unicode.ToUpper: the upper case of a lower-case letter, any other rune itself
ToUpper(r) ==
    CASE r = "m" -> "M"
      [] r = "h" -> "H"
      [] r = "f" -> "F"
      [] OTHER -> r

\* An accessor returned v, or aborted on an index out of range.
Returns(v) == [panic |-> FALSE, val |-> v]
Panics == [panic |-> TRUE, val |-> EmptyStr]

\* func (f Function) Name() string: parts[1] of a slice that may have one element
Name(f) ==
    LET parts == SplitN2(Base(f.Raw))
    IN  IF Len(parts) < 2 THEN Panics ELSE Returns(parts[2])

\* func (f Function) PkgName() string
PkgName(f) ==
    LET parts == SplitN2(Base(f.Raw))
    IN  Returns(QueryUnescape(parts[1]))

\* func (f Function) PkgDotName() string
PkgDotName(f) ==
    LET parts == SplitN2(Base(f.Raw))
        s == QueryUnescape(parts[1])
    IN  IF s # EmptyStr THEN IF Len(parts) < 2 THEN Panics
                                                ELSE Returns(s \o <<".">> \o parts[2])
        ELSE IF Len(parts) < 2 THEN Panics
        ELSE IF parts[2] # EmptyStr THEN Returns(s \o <<".">> \o parts[2])
        ELSE Returns(EmptyStr)

\* func (f Function) IsExported() bool
IsExported(f) ==
    IF Name(f).panic THEN Panics
    ELSE LET name == Name(f).val
             r == DecodeRuneInString(LastPart(name))
         IN  IF ToUpper(r) = r THEN Returns(TRUE)
             ELSE Returns(PkgName(f).val = <<"main">> /\ name = <<"main">>)

\* func (c *Call) IsStdlib() bool
IsStdlib(c, root) == Returns(StringsHasPrefix(c.SourcePath, root))

\* func (c *Call) IsPkgMain() bool
IsPkgMain(c) == Returns(PkgName(c.Func).val = <<"main">>)

\* Mutant of Equal: CreatedBy is not compared.
EqualSkipsCreatedBy(l, r) ==
    IF l.State # r.State \/ Len(l.Stack) # Len(r.Stack)
    THEN FALSE
    ELSE \A i \in 1..Len(l.Stack) : ~(l.Stack[i] # r.Stack[i])

\* Mutant of Equal: the lengths are compared with > instead of !=.
EqualShorterPasses(l, r) ==
    IF l.State # r.State \/ Len(l.Stack) > Len(r.Stack) \/ l.CreatedBy # r.CreatedBy
    THEN FALSE
    ELSE \A i \in 1..Len(l.Stack) : ~(l.Stack[i] # r.Stack[i])

\* func (l *Signature) Equal(r *Signature) bool
Equal(l, r) ==
    IF l.State # r.State \/ Len(l.Stack) # Len(r.Stack) \/ l.CreatedBy # r.CreatedBy
    THEN FALSE
    ELSE \A i \in 1..Len(l.Stack) : ~(l.Stack[i] # r.Stack[i])

\* The body of the for loop of Less on frame x: "true" and "next" (no return
\* statement was reached; the loop goes on).
LessFrame(lc, rc) ==
    IF StrLess(lc.Func.Raw, rc.Func.Raw) THEN "true"
    ELSE IF StrLess(rc.Func.Raw, lc.Func.Raw) THEN "true"
    ELSE IF StrLess(PkgSource(lc), PkgSource(rc)) THEN "true"
    ELSE IF StrLess(PkgSource(rc), PkgSource(lc)) THEN "true"
    ELSE IF lc.Line < rc.Line THEN "true"
    ELSE IF lc.Line > rc.Line THEN "true"
    ELSE "next"

RECURSIVE LessFrom(_, _, _)
\* for x := range l.Stack { ... } return false, from frame x on
LessFrom(l, r, x) ==
    IF x > Len(l.Stack) THEN FALSE
    ELSE IF LessFrame(l.Stack[x], r.Stack[x]) = "true" THEN TRUE
    ELSE LessFrom(l, r, x + 1)

\* func (l *Signature) Less(r *Signature) bool
Less(l, r) ==
    IF StrLess(l.State, r.State) THEN TRUE
    ELSE IF StrLess(r.State, l.State) THEN FALSE
    ELSE IF Len(l.Stack) < Len(r.Stack) THEN TRUE
    ELSE IF Len(l.Stack) > Len(r.Stack) THEN FALSE
    ELSE LessFrom(l, r, 1)

-----------------------------------------------------------------------------
(* The signatures the comparators are applied to *)

PathPAX == <<"/", "p", "/", "a", "/", "x">>
PathQAX == <<"/", "q", "/", "a", "/", "x">>

CallBase == Call(PathPAX, 1, Function(<<"f">>), EmptyStr)
\* as CallBase, other arguments
CallArgs == Call(PathPAX, 1, Function(<<"f">>), <<"1">>)
\* as CallBase, another directory above the same parent-directory/base-name
CallDir == Call(PathQAX, 1, Function(<<"f">>), EmptyStr)
\* as CallBase, another function
CallFunc == Call(PathPAX, 1, Function(<<"g">>), EmptyStr)
\* as CallBase, another line
CallLine == Call(PathPAX, 2, Function(<<"f">>), EmptyStr)

Calls == {CallBase, CallArgs, CallDir, CallFunc}

Stacks == UNION {[1..n -> Calls] : n \in 0..MaxStackLen}

SigSet ==
    {Signature(st, stk, cb) :
        st \in {<<"r">>, <<"s">>}, stk \in Stacks, cb \in {ZeroCall, CallLine}}

NoCmp == [op |-> "none", res |-> FALSE]

\* a call l.Equal(r)
CallEqual ==
    /\ cmp.op = "none"
    /\ cmp' = [op |-> "Equal", res |-> Equal(sa, sb)]
    /\ UNCHANGED <<sa, sb>>
    /\ UNCHANGED <<parseVars, bucketVars, envVars>>

\* a call l.Less(r)
CallLess ==
    /\ cmp.op = "none"
    /\ cmp' = [op |-> "Less", res |-> Less(sa, sb)]
    /\ UNCHANGED <<sa, sb>>
    /\ UNCHANGED <<parseVars, bucketVars, envVars>>

-----------------------------------------------------------------------------
(* Bucketize *)

\* Mutant of FoundKeys: no key is ever found Equal.
FoundKeysNone(m, routine) == {}

\* for key := range out { if key.Equal(&routine.Signature) { ... } }: the keys the
\* range loop can stop at.  A map is ranged over in an unspecified order.
FoundKeys(m, routine) ==
    {k \in DOMAIN m : Equal(m[k].key, routine.Signature)}

\* Mutant of BucketAppend: the slice is replaced instead of appended to.
BucketAppendOverwrite(m, k, routine) ==
    [m EXCEPT ![k].routines = <<routine>>]

\* Mutant of BucketAppend: the routine is put in front of the slice.
BucketAppendInFront(m, k, routine) ==
    [m EXCEPT ![k].routines = <<routine>> \o @]

\* out[key] = append(out[key], routine)
BucketAppend(m, k, routine) ==
    [m EXCEPT ![k].routines = Append(@, routine)]

\* key := &Signature{}; *key = routine.Signature; out[key] = []Goroutine{routine}
BucketInsert(m, routine) ==
    Append(m, [key |-> routine.Signature, routines |-> <<routine>>])

\* Where Bucketize stands after i of n routines: in the loop, or returned.
LoopPc(i, n) == IF i < n THEN "loop" ELSE "done"

\* One iteration of for _, routine := range goroutines (and the return after the last)
BucketizeStep ==
    /\ bkPc = "loop"
    /\ bkI < Len(bkIn)
    /\ LET routine == bkIn[bkI + 1]
           found == FoundKeys(bkOut, routine)
       IN IF found # {}
          THEN \E k \in found : bkOut' = BucketAppend(bkOut, k, routine)
          ELSE bkOut' = BucketInsert(bkOut, routine)
    /\ bkI' = bkI + 1
    /\ bkPc' = LoopPc(bkI', Len(bkIn))
    /\ UNCHANGED <<bkIn, bkSorted, bkSortPc>>
    /\ UNCHANGED <<parseVars, sigVars, envVars>>

\* Bucketize(goroutines) on the list ParseDump returned
BucketizeCall ==
    /\ pc = "done"
    /\ bkPc = "idle"
    /\ bkIn' = goroutines
    /\ bkI' = 0
    /\ bkOut' = <<>>
    /\ bkPc' = LoopPc(0, Len(goroutines))
    /\ UNCHANGED <<bkSorted, bkSortPc>>
    /\ UNCHANGED <<parseVars, sigVars, envVars>>

\* Bucketize returned.
Bucketized == bkPc = "done"

\* The keys of the returned map that hold routine number i of the argument.
BucketsOf(i) ==
    {k \in DOMAIN bkOut : \E j \in 1..Len(bkOut[k].routines) : bkOut[k].routines[j] = bkIn[i]}

\* Bucket{Signature, Routines}
Bucket(sig, routines) == [Signature |-> sig, Routines |-> routines]

\* Bucket.First: one of the routines is the First one
First(b) == \E i \in 1..Len(b.Routines) : b.Routines[i].First

\* Bucket.Less
BucketLess(b, r) ==
    IF First(b) THEN TRUE
    ELSE IF First(r) THEN FALSE
    ELSE IF Len(b.Routines) > Len(r.Routines) THEN TRUE
    ELSE IF Len(b.Routines) < Len(r.Routines) THEN FALSE
    ELSE Less(b.Signature, r.Signature)

\* Buckets.Swap
Swap(b, i, j) == [b EXCEPT ![j] = b[i], ![i] = b[j]]

\* sort.Sort on fewer than seven elements is the insertion sort
\*   for i := 1; i < n; i++ { for j := i; j > 0 && Less(j, j-1); j-- { Swap(j, j-1) } }
\* InsertLeft is its inner loop for the element at (1-based) position j.
RECURSIVE InsertLeft(_, _)
InsertLeft(b, j) ==
    IF j > 1 /\ BucketLess(b[j], b[j - 1])
    THEN InsertLeft(Swap(b, j, j - 1), j - 1)
    ELSE b

RECURSIVE InsertionSortFrom(_, _)
InsertionSortFrom(b, i) ==
    IF i > Len(b) THEN b ELSE InsertionSortFrom(InsertLeft(b, i), i + 1)

SortSort(b) == InsertionSortFrom(b, 2)

\* The orders in which range can enumerate a map of n keys.
RangeOrders(n) ==
    {p \in [1..n -> 1..n] : \A i, j \in 1..n : p[i] = p[j] => i = j}

\* out as the range loop of SortBuckets builds it when it enumerates m in order p
RangeAppend(m, p) ==
    [i \in 1..Len(m) |-> Bucket(m[p[i]].key, m[p[i]].routines)]

\* SortBuckets(buckets) on the map Bucketize returned
SortBuckets ==
    /\ bkPc = "done"
    /\ bkSortPc = "idle"
    /\ \E p \in RangeOrders(Len(bkOut)) : bkSorted' = SortSort(RangeAppend(bkOut, p))
    /\ bkSortPc' = "done"
    /\ UNCHANGED <<bkIn, bkI, bkOut, bkPc>>
    /\ UNCHANGED <<parseVars, sigVars, envVars>>

\* SortBuckets returned.
Sorted == bkSortPc = "done"

\* The routine lists Bucketize is given directly: the ID is the position, and
\* First marks the first routine, as ParseDump sets it.
BucketSigs ==
    {Signature(<<"r">>, <<CallBase>>, ZeroCall),
     Signature(<<"r">>, <<CallArgs>>, ZeroCall),
     Signature(<<"r">>, <<CallFunc>>, ZeroCall),
     Signature(<<"s">>, <<CallBase, CallFunc>>, CallLine)}

RoutineLists ==
    UNION {{[i \in 1..n |-> Goroutine(f[i], i, i = 1)] : f \in [1..n -> BucketSigs]} :
           n \in 0..MaxRoutines}

-----------------------------------------------------------------------------
(* Specifications *)

ParseIdle ==
    /\ pc = "idle"
    /\ err = "nil"
    /\ input = <<>>
    /\ text = <<>>
    /\ goroutines = <<>>
    /\ goroutine = 0
    /\ created = FALSE
    /\ out = <<>>
    /\ hdrAt = <<>>
    /\ callAt = <<>>

BucketIdle ==
    /\ bkIn = <<>>
    /\ bkI = 0
    /\ bkOut = <<>>
    /\ bkPc = "idle"
    /\ bkSorted = <<>>
    /\ bkSortPc = "idle"

\* No accessor has been called.
NoRet == [op |-> "none", panic |-> FALSE, val |-> EmptyStr]

\* The root directory of the Go installation this program was built with.
GoRoot == <<"/", "goroot">>

\* No second call of ParseDump is made.
NoSecond ==
    [st |-> [pc |-> "idle", err |-> "nil", goroutines |-> <<>>, goroutine |-> 0,
             created |-> FALSE, out |-> <<>>],
     input |-> <<>>, text |-> <<>>, mixed |-> FALSE]

\* The caller has not cancelled, calls no accessor and makes no second call
\* of ParseDump.
EnvIdle ==
    /\ cancel = FALSE
    /\ second = NoSecond
    /\ recv = ZeroCall
    /\ goroot = GoRoot
    /\ ret = NoRet

SigIdle ==
    /\ sa = Signature(EmptyStr, <<>>, ZeroCall)
    /\ sb = Signature(EmptyStr, <<>>, ZeroCall)
    /\ cmp = NoCmp

\* ParseDump on any input of at most MaxLines lines drawn from Lines.
Init == ParseInit /\ BucketIdle /\ SigIdle /\ EnvIdle

Next ==
    \/ \E raw \in Lines : ScanBlank(raw, ScanLines(raw))
    \/ \E raw \in Lines : ScanPrelude(raw, ScanLines(raw))
    \/ \E raw \in Lines : ScanFile(raw, ScanLines(raw))
    \/ \E raw \in Lines : ScanCreated(raw, ScanLines(raw))
    \/ \E raw \in Lines : ScanFunc(raw, ScanLines(raw))
    \/ \E raw \in Lines : ScanJunk(raw, ScanLines(raw))
    \/ ScanEOF
    \/ ScanError

Spec == Init /\ [][Next]_vars

\* ParseDump on any input of at most MaxLines lines drawn from PipeLines, and
\* then Bucketize on the list it returned.
NextPipe ==
    \/ \E raw \in PipeLines : ScanBlank(raw, ScanLines(raw))
    \/ \E raw \in PipeLines : ScanPrelude(raw, ScanLines(raw))
    \/ \E raw \in PipeLines : ScanFile(raw, ScanLines(raw))
    \/ \E raw \in PipeLines : ScanCreated(raw, ScanLines(raw))
    \/ \E raw \in PipeLines : ScanFunc(raw, ScanLines(raw))
    \/ \E raw \in PipeLines : ScanJunk(raw, ScanLines(raw))
    \/ ScanEOF
    \/ ScanError
    \/ BucketizeCall
    \/ BucketizeStep

SpecPipe == Init /\ [][NextPipe]_vars

\* ParseDump on any input of at most MaxLines lines drawn from ShapeLines.
NextShapes ==
    \/ \E raw \in ShapeLines : ScanBlank(raw, ScanLines(raw))
    \/ \E raw \in ShapeLines : ScanPrelude(raw, ScanLines(raw))
    \/ \E raw \in ShapeLines : ScanFile(raw, ScanLines(raw))
    \/ \E raw \in ShapeLines : ScanCreated(raw, ScanLines(raw))
    \/ \E raw \in ShapeLines : ScanFunc(raw, ScanLines(raw))
    \/ \E raw \in ShapeLines : ScanJunk(raw, ScanLines(raw))
    \/ ScanEOF
    \/ ScanError

SpecShapes == Init /\ [][NextShapes]_vars

\* ParseDump on any input of at most MaxLines lines drawn from FormLines.
NextForms ==
    \/ \E raw \in FormLines : ScanBlank(raw, ScanLines(raw))
    \/ \E raw \in FormLines : ScanPrelude(raw, ScanLines(raw))
    \/ \E raw \in FormLines : ScanFile(raw, ScanLines(raw))
    \/ \E raw \in FormLines : ScanCreated(raw, ScanLines(raw))
    \/ \E raw \in FormLines : ScanFunc(raw, ScanLines(raw))
    \/ \E raw \in FormLines : ScanJunk(raw, ScanLines(raw))
    \/ ScanEOF
    \/ ScanError

SpecForms == Init /\ [][NextForms]_vars

\* ParseDump on any input of at most MaxLines lines drawn from IndentLines.
NextIndent ==
    \/ \E raw \in IndentLines : ScanBlank(raw, ScanLines(raw))
    \/ \E raw \in IndentLines : ScanPrelude(raw, ScanLines(raw))
    \/ \E raw \in IndentLines : ScanFile(raw, ScanLines(raw))
    \/ \E raw \in IndentLines : ScanCreated(raw, ScanLines(raw))
    \/ \E raw \in IndentLines : ScanFunc(raw, ScanLines(raw))
    \/ \E raw \in IndentLines : ScanJunk(raw, ScanLines(raw))
    \/ ScanEOF
    \/ ScanError

SpecIndent == Init /\ [][NextIndent]_vars

\* ParseDump on any input of at most MaxLines lines drawn from CRLFLines.
NextCRLF ==
    \/ \E raw \in CRLFLines : ScanBlank(raw, ScanLines(raw))
    \/ \E raw \in CRLFLines : ScanPrelude(raw, ScanLines(raw))
    \/ \E raw \in CRLFLines : ScanFile(raw, ScanLines(raw))
    \/ \E raw \in CRLFLines : ScanCreated(raw, ScanLines(raw))
    \/ \E raw \in CRLFLines : ScanFunc(raw, ScanLines(raw))
    \/ \E raw \in CRLFLines : ScanJunk(raw, ScanLines(raw))
    \/ ScanEOF
    \/ ScanError

SpecCRLF == Init /\ [][NextCRLF]_vars

\* ParseDump on any input of at most MaxLines lines drawn from PipeLines, with a
\* caller that may cancel at any moment. The reader goes on delivering lines
\* until it ends or fails.
NextCancel ==
    \/ \E raw \in PipeLines : ScanBlank(raw, ScanLines(raw))
    \/ \E raw \in PipeLines : ScanPrelude(raw, ScanLines(raw))
    \/ \E raw \in PipeLines : ScanFile(raw, ScanLines(raw))
    \/ \E raw \in PipeLines : ScanCreated(raw, ScanLines(raw))
    \/ \E raw \in PipeLines : ScanFunc(raw, ScanLines(raw))
    \/ \E raw \in PipeLines : ScanJunk(raw, ScanLines(raw))
    \/ ScanEOF
    \/ ScanError
    \/ Cancel

SpecCancel == Init /\ [][NextCancel]_vars /\ WF_vars(NextCancel)

\* ParseDump on any input of at most MaxLines lines drawn from RaceLines.
NextRace ==
    \/ \E raw \in RaceLines : ScanBlank(raw, ScanLines(raw))
    \/ \E raw \in RaceLines : ScanPrelude(raw, ScanLines(raw))
    \/ \E raw \in RaceLines : ScanFile(raw, ScanLines(raw))
    \/ \E raw \in RaceLines : ScanCreated(raw, ScanLines(raw))
    \/ \E raw \in RaceLines : ScanFunc(raw, ScanLines(raw))
    \/ \E raw \in RaceLines : ScanJunk(raw, ScanLines(raw))
    \/ ScanEOF
    \/ ScanError

SpecRace == Init /\ [][NextRace]_vars

\* The function symbols an accessor is applied to: what ParseDump stores from
\* a function line or a "created by" line, and the empty symbol of ZeroCall.
FuncSymbols ==
    { <<"main", ".", "main">>,
      <<"main", ".", "main", ".", "func2">>,
      <<"main", ".", "Run">>,
      <<"ma%69n", ".", "Run">>,
      <<"github", ".", "com", "/", "x", "/", "main", ".", "Run">>,
      <<"gopkg", ".", "in", "/", "yaml", "%2e", "v2", ".", "handleErr">>,
      <<"stack", ".", "New">>,
      <<"testing", ".", "(*T)", ".", "Run">>,
      <<"engine", ".", "_Cfunc_DBIterSeek">>,
      <<"x", ".", "0init">>,
      <<"findrunnable">>,
      EmptyStr }

\* The source paths of the calls.
SourcePaths ==
    { <<"/", "goroot", "/", "yaml", ".go">>,
      <<"/", "goroot", "2", "/", "yaml", ".go">>,
      <<"/", "gopath", "/", "yaml", ".go">>,
      EmptyStr }

CallName ==
    /\ ret' = [op |-> "Name"] @@ Name(recv.Func)
    /\ UNCHANGED <<cancel, recv, goroot, second>>
    /\ UNCHANGED <<parseVars, bucketVars, sigVars>>

CallPkgName ==
    /\ ret' = [op |-> "PkgName"] @@ PkgName(recv.Func)
    /\ UNCHANGED <<cancel, recv, goroot, second>>
    /\ UNCHANGED <<parseVars, bucketVars, sigVars>>

CallPkgDotName ==
    /\ ret' = [op |-> "PkgDotName"] @@ PkgDotName(recv.Func)
    /\ UNCHANGED <<cancel, recv, goroot, second>>
    /\ UNCHANGED <<parseVars, bucketVars, sigVars>>

CallIsExported ==
    /\ ret' = [op |-> "IsExported"] @@ IsExported(recv.Func)
    /\ UNCHANGED <<cancel, recv, goroot, second>>
    /\ UNCHANGED <<parseVars, bucketVars, sigVars>>

CallIsStdlib ==
    /\ ret' = [op |-> "IsStdlib"] @@ IsStdlib(recv, goroot)
    /\ UNCHANGED <<cancel, recv, goroot, second>>
    /\ UNCHANGED <<parseVars, bucketVars, sigVars>>

CallIsPkgMain ==
    /\ ret' = [op |-> "IsPkgMain"] @@ IsPkgMain(recv)
    /\ UNCHANGED <<cancel, recv, goroot, second>>
    /\ UNCHANGED <<parseVars, bucketVars, sigVars>>

\* Any accessor on any call made of FuncSymbols and SourcePaths.
InitCall ==
    /\ ParseIdle
    /\ BucketIdle
    /\ SigIdle
    /\ cancel = FALSE
    /\ \E sym \in FuncSymbols, path \in SourcePaths :
           recv = Call(path, 153, Function(sym), EmptyStr)
    /\ goroot \in {GoRoot, EmptyStr}    \* runtime.GOROOT(): the root, or "" when not known
    /\ ret = NoRet
    /\ second = NoSecond

NextCall ==
    \/ CallName
    \/ CallPkgName
    \/ CallPkgDotName
    \/ CallIsExported
    \/ CallIsStdlib
    \/ CallIsPkgMain

SpecCall == InitCall /\ [][NextCall]_vars

\* Equal and Less on any two signatures of SigSet.
InitSig ==
    /\ ParseIdle
    /\ BucketIdle
    /\ EnvIdle
    /\ sa \in SigSet
    /\ sb \in SigSet
    /\ cmp = NoCmp

NextSig == CallEqual \/ CallLess

SpecSig == InitSig /\ [][NextSig]_vars

\* Bucketize on any routine list of RoutineLists, and then SortBuckets on the
\* map it returned.
InitBucket ==
    /\ ParseIdle
    /\ SigIdle
    /\ EnvIdle
    /\ bkIn \in RoutineLists
    /\ bkI = 0
    /\ bkOut = <<>>
    /\ bkPc = LoopPc(0, Len(bkIn))
    /\ bkSorted = <<>>
    /\ bkSortPc = "idle"

NextBucket == BucketizeStep \/ SortBuckets

SpecBucket == InitBucket /\ [][NextBucket]_vars

-----------------------------------------------------------------------------
(* Helpers of the properties *)

RECURSIVE SumSeq(_)
SumSeq(s) == IF s = <<>> THEN 0 ELSE Head(s) + SumSeq(Tail(s))

\* How many lines of s are blank / are not.
BlankCount(s) == Cardinality({i \in 1..Len(s) : s[i] = Blank})
NonBlankCount(s) == Len(s) - BlankCount(s)

\* A line ParseDump takes for a routine header when no routine is open.
IsHeader(line) == reRoutineHeader(line).ok /\ Atoi(reRoutineHeader(line).g1).ok

\* ParseDump returned without an error.
ParseSucceeded == pc = "done" /\ err = "nil"

\* The line the last step consumed, in a step that consumed one.
Consumed == Len(input') = Len(input) + 1
LastLine == input'[Len(input')]

-----------------------------------------------------------------------------
(* Properties of ParseDump *)

\* C1: after a successful ParseDump, the routine at index 0 is the only one with
\* First = true, and there is such a routine when the input holds a routine header.
C1_OnlyFirstRoutineIsFirst ==
    ParseSucceeded =>
        /\ \A i \in 1..Len(goroutines) : goroutines[i].First <=> (i = 1)
        /\ (\E k \in 1..Len(input) : IsHeader(input[k])) => Len(goroutines) >= 1

\* C1 witness: a successful parse that returned two routines.
C1_Witness == ParseSucceeded /\ Len(goroutines) >= 2

\* C3: the routines are stored in the order of their header lines and, inside a
\* routine, the calls in the order of its function lines: routine i is the one
\* its header line describes, call k the one its function line describes, and
\* the positions of these lines in the input only grow.
C3_OrderPreserved ==
    /\ Len(hdrAt) = Len(goroutines)
    /\ Len(callAt) = Len(goroutines)
    /\ \A i \in 1..Len(goroutines) :
        LET g == goroutines[i]
            hdr == reRoutineHeader(input[hdrAt[i]])
            stack == g.Signature.Stack
        IN /\ hdr.ok
           /\ g.ID = Atoi(hdr.g1).val
           /\ g.Signature.State = hdr.g2
           /\ i > 1 => hdrAt[i - 1] < hdrAt[i]
           /\ Len(callAt[i]) = Len(stack)
           /\ \A k \in 1..Len(stack) :
                LET fn == reFunc(input[callAt[i][k]])
                IN /\ fn.ok
                   /\ stack[k].Func.Raw = fn.g1
                   /\ stack[k].Args = fn.g2
                   /\ hdrAt[i] < callAt[i][k]
                   /\ k > 1 => callAt[i][k - 1] < callAt[i][k]
                   /\ i < Len(goroutines) => callAt[i][k] < hdrAt[i + 1]

\* C3 witness: two routines with different IDs, the first one with two different calls.
C3_Witness ==
    /\ Len(goroutines) >= 2
    /\ goroutines[1].ID # goroutines[2].ID
    /\ Len(goroutines[1].Signature.Stack) >= 2
    /\ goroutines[1].Signature.Stack[1].Func # goroutines[1].Signature.Stack[2].Func

C5_BlankEchoedOnlyBeforeFirstRoutine ==
    LET before == IF Len(hdrAt) = 0 THEN input ELSE SubSeq(input, 1, hdrAt[1] - 1)
    IN BlankCount(out) <= BlankCount(before)

\* The input lines a routine record stands for: its header, a function line per
\* call, a file line per call that has a source path, the created-by line and
\* its file line.
RoutineLines(g) ==
    LET stack == g.Signature.Stack
        cb == g.Signature.CreatedBy
    IN 1 + Len(stack)
         + Cardinality({k \in 1..Len(stack) : stack[k].SourcePath # EmptyStr})
         + (IF cb.Func.Raw # EmptyStr THEN 1 ELSE 0)
         + (IF cb.SourcePath # EmptyStr THEN 1 ELSE 0)

RecordLines(gs) == SumSeq([i \in 1..Len(gs) |-> RoutineLines(gs[i])])

\* C6: after a successful ParseDump every non-blank input line is accounted for
\* exactly once, in the auxiliary output or in a routine record.
C6_EveryLineAccountedOnce ==
    ParseSucceeded =>
        NonBlankCount(input) = NonBlankCount(out) + RecordLines(goroutines)

-----------------------------------------------------------------------------
(* Properties of Bucketize *)

\* C2: the buckets Bucketize returns partition its argument: every routine is in
\* exactly one bucket, once, and the bucket sizes add up to the number of routines.
C2_BucketizePartitions ==
    Bucketized =>
        /\ \A i \in 1..Len(bkIn) : Cardinality(BucketsOf(i)) = 1
        /\ SumSeq([k \in 1..Len(bkOut) |-> Len(bkOut[k].routines)]) = Len(bkIn)

\* C2 witness: Bucketize returned two buckets, one of them with two routines.
C2_Witness ==
    /\ Bucketized
    /\ Len(bkOut) >= 2
    /\ \E k \in DOMAIN bkOut : Len(bkOut[k].routines) >= 2

\* The state of a header without its ", N minutes" part.
MinuteChunks == {"100 minutes", "101 minutes"}
BaseState(state) ==
    LET n == Len(state) IN
    IF n >= 3 /\ state[n - 1] = ", " /\ state[n] \in MinuteChunks
    THEN SubSeq(state, 1, n - 2)
    ELSE state

\* Two routines that differ in the minutes of their headers, and in nothing else
\* of their state, stack and created-by.
DifferInMinutesOnly(g, h) ==
    /\ g.Signature.State # h.Signature.State
    /\ BaseState(g.Signature.State) = BaseState(h.Signature.State)
    /\ g.Signature.Stack = h.Signature.Stack
    /\ g.Signature.CreatedBy = h.Signature.CreatedBy

\* C8: routines whose headers differ only in the reported minutes have Equal
\* signatures, and Bucketize puts them in the same bucket.
C8_SleepNotInEquality ==
    (ParseSucceeded /\ Bucketized) =>
        \A i, j \in 1..Len(bkIn) :
            DifferInMinutesOnly(bkIn[i], bkIn[j]) =>
                /\ Equal(bkIn[i].Signature, bkIn[j].Signature)
                /\ BucketsOf(i) = BucketsOf(j)

-----------------------------------------------------------------------------
(* Properties of Signature.Equal and Signature.Less *)

\* Two calls agree on (function symbol, parent-directory/base-name, line).
SameFrameKey(c, d) ==
    /\ c.Func.Raw = d.Func.Raw
    /\ PkgSource(c) = PkgSource(d)
    /\ c.Line = d.Line

\* Two calls agree field for field.
SameCall(c, d) ==
    /\ c.SourcePath = d.SourcePath
    /\ c.Line = d.Line
    /\ c.Func.Raw = d.Func.Raw
    /\ c.Args = d.Args

\* The key Less compares: State, number of calls, and the key of every frame.
LessKey(s) ==
    <<s.State, Len(s.Stack),
      [i \in 1..Len(s.Stack) |->
          <<s.Stack[i].Func.Raw, PkgSource(s.Stack[i]), s.Stack[i].Line>>]>>

C9_EqualIsEquivalence ==
    cmp.op = "Equal" =>
        /\ sa = sb => cmp.res
        /\ cmp.res => Equal(sb, sa)
        /\ cmp.res => \A sc \in SigSet : Equal(sb, sc) => Equal(sa, sc)

\* C9 witness: Equal returned true on signatures with two frames and a CreatedBy.
C9_Witness ==
    /\ cmp.op = "Equal"
    /\ cmp.res
    /\ Len(sa.Stack) >= 2
    /\ sa.CreatedBy # ZeroCall

\* C10: Less is a strict total order on the key it compares: irreflexive,
\* asymmetric, transitive, and exactly one of Less(a, b), Less(b, a) holds for
\* two signatures with different keys.
C10_LessIsStrictTotalOrder ==
    cmp.op = "Less" =>
        /\ sa = sb => ~cmp.res
        /\ cmp.res => ~Less(sb, sa)
        /\ cmp.res => \A sc \in SigSet : Less(sb, sc) => Less(sa, sc)
        /\ LessKey(sa) # LessKey(sb) => (cmp.res # Less(sb, sa))


-----------------------------------------------------------------------------
(* SortBuckets *)

\* The buckets of the returned list that do not hold the First routine.
Rest == {i \in 1..Len(bkSorted) : ~First(bkSorted[i])}

FirstAtFront ==
    (\E i \in 1..Len(bkSorted) : First(bkSorted[i])) => First(bkSorted[1])

CountOrder ==
    \A i, j \in Rest :
        i < j => Len(bkSorted[i].Routines) >= Len(bkSorted[j].Routines)

TieOrder ==
    \A i, j \in Rest :
        (i < j /\ Len(bkSorted[i].Routines) = Len(bkSorted[j].Routines))
            => ~Less(bkSorted[j].Signature, bkSorted[i].Signature)

\* C11: in the list SortBuckets returned, the bucket of the First routine is at
\* index 0, the remaining buckets are in non-increasing order of member count,
\* and among buckets of equal count none is placed after a bucket it is Less than.
C11_FirstThenCountThenLess ==
    Sorted => (FirstAtFront /\ CountOrder /\ TieOrder)

\* The list SortBuckets returns when range enumerates the map in order p.
SortedUnder(p) == SortSort(RangeAppend(bkOut, p))

\* C12: Bucketize followed by SortBuckets returns the same sequence of buckets
\* whatever the order in which range enumerates the map.
C12_SortOrderDeterministic ==
    Sorted => \A p \in RangeOrders(Len(bkOut)) : SortedUnder(p) = bkSorted

\* The position in the argument of Bucketize of routine r.
PosIn(r) == CHOOSE i \in 1..Len(bkIn) : bkIn[i] = r

InInputOrder(routines) ==
    \A i, j \in 1..Len(routines) :
        i < j => (PosIn(routines[i]) < PosIn(routines[j]) /\ routines[i].ID < routines[j].ID)

-----------------------------------------------------------------------------
(* Errors of ParseDump *)

\* The line is a file line whose line number is out of the range of int.
IsFileLineTooBig(line) ==
    /\ reFile(line).ok
    /\ reFile(line).g2[1] \in TooBig

\* The line consumed before this one was a function line of the open routine.
AfterFuncLine ==
    /\ goroutine # 0
    /\ callAt[goroutine] # <<>>
    /\ callAt[goroutine][Len(callAt[goroutine])] = Len(input)

\* The created-by lines of the open routine read so far.
CreatedLines ==
    {k \in (hdrAt[goroutine] + 1)..Len(input) : ~reFile(input[k]).ok /\ reCreated(input[k]).ok}

\* The line consumed before this one was the only created-by line of the open
\* routine.
AfterOnlyCreatedLine ==
    /\ goroutine # 0
    /\ CreatedLines = {Len(input)}

C14_CreatedCase ==
    /\ pc = "done"
    /\ err = "failed to parse int on line"
    /\ Len(input) >= 2
    /\ input[Len(input)] = FileBig
    /\ input[Len(input) - 1] = CreatedNew
    /\ Len(goroutines[1].Signature.Stack) = 1
    /\ goroutines[1].Signature.CreatedBy = Call(EmptyStr, 0, Function(<<"stack.New">>), EmptyStr)


\* The shapes of a line, as the if chain of ParseDump tells them apart.
IsFileLine(line) == reFile(line).ok
IsCreatedLine(line) == ~reFile(line).ok /\ reCreated(line).ok
IsFuncLine(line) == ~reFile(line).ok /\ ~reCreated(line).ok /\ reFunc(line).ok

\* Argument literals above 2^64 - 1.
ArgTooBig == {"123456789012345678901"}

\* C15: a function line with an argument too large for 64 bits, read while a
\* routine is open, stops ParseDump with the error "failed to parse int on
\* line"; the routines read before are kept and the call is recorded without
\* arguments and without source location.
C15_ArgOverflowStops ==
    [][(/\ Consumed
        /\ goroutine # 0
        /\ IsFuncLine(LastLine)
        /\ \E i \in 1..Len(reFunc(LastLine).g2) : reFunc(LastLine).g2[i] \in ArgTooBig) =>
          /\ pc' = "done"
          /\ err' = "failed to parse int on line"
          /\ Len(goroutines') = Len(goroutines)
          /\ LET stack == goroutines'[goroutine].Signature.Stack
             IN /\ Len(stack) = Len(goroutines[goroutine].Signature.Stack) + 1
                /\ stack[Len(stack)] = Call(EmptyStr, 0, Function(reFunc(LastLine).g1), EmptyStr)]_vars

\* The line consumed before this one was the header of the open routine.
AfterHeader ==
    /\ goroutine # 0
    /\ hdrAt[goroutine] = Len(input)

\* C16: directly after a routine header, a line of text that is neither a function
\* line nor the unavailable-stack line stops ParseDump with the error "expected a
\* function after a goroutine header"; the routine is in the result with its ID,
\* its state and an empty stack.
C16_HeaderThenNonFunctionIsFatal ==
    [][(/\ Consumed
        /\ AfterHeader
        /\ LastLine # Blank
        /\ ~IsFuncLine(LastLine)
        /\ LastLine # UnavailLine) =>
          /\ pc' = "done"
          /\ err' = "expected a function after a goroutine header"
          /\ goroutines' = goroutines
          /\ goroutines'[goroutine].Signature.Stack = <<>>]_vars

\* The line consumed before this one was a created-by line of the open routine.
AfterCreatedLine ==
    /\ goroutine # 0
    /\ Len(input) \in CreatedLines

\* C17: a function line and a created-by line must be followed by a file line:
\* any other line of text stops ParseDump with the error "expected a file after a
\* function" or "expected a file after a created line", leaves the frames and
\* the created-by function read so far in the result and is not written to out.
C17_FuncOrCreatedThenNonFileIsFatal ==
    [][(/\ Consumed
        /\ AfterFuncLine \/ AfterCreatedLine
        /\ LastLine # Blank
        /\ ~IsFileLine(LastLine)) =>
          /\ pc' = "done"
          /\ err' = IF AfterFuncLine THEN "expected a file after a function"
                    ELSE "expected a file after a created line"
          /\ goroutines' = goroutines
          /\ out' = out]_vars

\* The line consumed before this one was the file line of the top frame of the
\* open routine: the frame is complete.
AfterCompleteFrame ==
    /\ goroutine # 0
    /\ Len(input) >= 2
    /\ IsFileLine(input[Len(input)])
    /\ callAt[goroutine] # <<>>
    /\ callAt[goroutine][Len(callAt[goroutine])] = Len(input) - 1

\* C18: after a complete frame ParseDump accepts a blank line, a function line,
\* a created-by line or the elided-frames marker; any other line, a second file
\* line included, is a fatal error and leaves the recorded frames as they were.
C18_CompleteFrameThenOnlyGrammar ==
    [][(/\ Consumed
        /\ AfterCompleteFrame
        /\ LastLine # Blank
        /\ ~IsFuncLine(LastLine)
        /\ ~IsCreatedLine(LastLine)
        /\ LastLine # ElidedLine) =>
          /\ pc' = "done"
          /\ err' # "nil"
          /\ goroutines' = goroutines]_vars

\* C19: the elided-frames marker after a complete frame is not written to out
\* and keeps the routine open, so that a created-by line that follows is
\* recorded in this routine.
C19_ElidedKeepsRoutineOpen ==
    [][(/\ Consumed
        /\ AfterCompleteFrame
        /\ LastLine = ElidedLine) =>
          /\ pc' = "scan"
          /\ out' = out
          /\ goroutine' = goroutine
          /\ goroutines' = goroutines]_vars

\* The call that stands for a stack the runtime could not read.
UnavailableCall == Call(<<"<unavailable>">>, 0, Function(EmptyStr), EmptyStr)

\* C20: the unavailable-stack line directly after a header gives the routine a
\* stack of exactly one call with an empty function, source path
\* "<unavailable>" and line 0, and keeps the routine open for the blank line or
\* the created-by line that may follow.
C20_UnavailableStackSentinel ==
    [][(/\ Consumed
        /\ AfterHeader
        /\ LastLine = UnavailLine) =>
          /\ pc' = "scan"
          /\ out' = out
          /\ goroutine' = goroutine
          /\ goroutines'[goroutine].Signature.Stack = <<UnavailableCall>>]_vars


-----------------------------------------------------------------------------
(* Shape of the result *)

\* C21: in the result of a successful parse every routine has at least one
\* call: a header followed directly by a blank line or by the end of the input
\* never gives a routine with an empty stack and no error.
C21_NoEmptyStackOnSuccess ==
    ParseSucceeded =>
        \A i \in 1..Len(goroutines) : Len(goroutines[i].Signature.Stack) >= 1


-----------------------------------------------------------------------------
(* ParseDump as a function of the raw lines *)

\* The locals of ParseDump and what it has written to out.
ParseState(p, e, gs, g, c, o) ==
    [pc |-> p, err |-> e, goroutines |-> gs, goroutine |-> g, created |-> c, out |-> o]

\* Before the first scanner.Scan().
ParseStart == ParseState("scan", "nil", <<>>, 0, FALSE, <<>>)

\* Where ParseDump stands now.
ParseNow == ParseState(pc, err, goroutines, goroutine, created, out)

\* One turn of the for loop on the line scanner.Text() returned.
Feed(st, line) ==
    IF st.pc # "scan" THEN st
    ELSE IF Len(line) = 0
    THEN [st EXCEPT !.out = IF st.goroutine = 0 THEN WriteString(@, line) ELSE @,
                    !.goroutine = 0]
    ELSE IF st.goroutine = 0
    THEN LET match == reRoutineHeader(line)
             id == Atoi(match.g1)
         IN IF match.ok /\ id.ok
            THEN [st EXCEPT !.goroutines = AppendGoroutine(@, match.g2, id.val),
                            !.goroutine = Len(st.goroutines) + 1]
            ELSE [st EXCEPT !.out = WriteString(@, line)]
    ELSE IF reFile(line).ok
    THEN LET match == reFile(line)
             num == Atoi(match.g2)
         IN IF ~num.ok
            THEN [st EXCEPT !.pc = "done", !.err = "failed to parse int on line"]
            ELSE IF st.created
            THEN [st EXCEPT !.created = FALSE,
                            !.goroutines[st.goroutine].Signature.CreatedBy =
                                SetCreatedFile(@, match.g1, num.val)]
            ELSE IF Len(st.goroutines[st.goroutine].Signature.Stack) = 0
            THEN [st EXCEPT !.pc = "panic"]
            ELSE [st EXCEPT !.goroutines[st.goroutine].Signature.Stack =
                                SetTopFile(@, match.g1, num.val)]
    ELSE IF reCreated(line).ok
    THEN [st EXCEPT !.created = TRUE,
                    !.goroutines[st.goroutine].Signature.CreatedBy =
                        SetCreatedFunc(@, reCreated(line).g1)]
    ELSE IF reFunc(line).ok
    THEN [st EXCEPT !.goroutines[st.goroutine].Signature.Stack =
                        AppendCall(@, reFunc(line).g1, reFunc(line).g2)]
    ELSE [st EXCEPT !.out = WriteString(@, line), !.goroutine = 0]

\* The for loop over the raw lines the reader holds.
RECURSIVE ScanAll(_, _)
ScanAll(st, raws) ==
    IF raws = <<>> THEN st ELSE ScanAll(Feed(st, ScanLines(Head(raws))), Tail(raws))

\* ParseDump on a reader that holds the raw lines raws and then ends.
ParseDump(raws) ==
    LET st == ScanAll(ParseStart, raws)
    IN IF st.pc = "scan" THEN [st EXCEPT !.pc = "done"] ELSE st

\* The reader failed, or held a line longer than the scanner's buffer.
ReaderErrors == {"bufio.Scanner: token too long", "read error"}

\* ParseDump returned and the reader had not failed.
ReturnedAtEnd == pc = "done" /\ err \notin ReaderErrors

\* The steps of ParseDump and the function ParseDump agree on the text read.
ParseDumpAgrees ==
    /\ pc = "scan" => ScanAll(ParseStart, text) = ParseNow
    /\ (ReturnedAtEnd \/ pc = "panic") => ParseDump(text) = ParseNow


-----------------------------------------------------------------------------
(* Shapes of headers and file lines *)

\* The suffixes a header may carry after the state, each after a ", ".
StateSuffixes == MinuteChunks \cup {"locked to thread"}

\* The text between the brackets of a header without its suffixes.
StateOnly(state) ==
    LET cut == {i \in 1..(Len(state) - 1) : state[i] = ", " /\ state[i + 1] \in StateSuffixes}
    IN IF cut = {} THEN state
       ELSE SubSeq(state, 1, (CHOOSE i \in cut : \A j \in cut : i <= j) - 1)

\* C22: for a header "goroutine N [S, M minutes, locked to thread]:", each of
\* the two suffixes optional, the State of the routine is S without the
\* suffixes.
C22_HeaderStateWithoutSuffixes ==
    [][(Consumed /\ goroutine = 0 /\ IsHeader(LastLine)) =>
          /\ Len(goroutines') = Len(goroutines) + 1
          /\ goroutines'[Len(goroutines')].Signature.State =
                 StateOnly(reRoutineHeader(LastLine).g2)]_vars

\* The file lines of the documented shapes among the lines read.
DocumentedFileLines == {FileYaml, FileAsm, FileUnknown}

\* The position of the ":" before the line number of a file line.
ColonAt(line) == CHOOSE i \in 1..Len(line) : line[i] = ":"

\* C23: a file line of any documented shape, read after a function line, sets
\* the source path and the line of the top call and is not written to out.
C23_EveryFileShapeRecognized ==
    [][(Consumed /\ AfterFuncLine /\ ~created /\ LastLine \in DocumentedFileLines) =>
          /\ pc' = "scan"
          /\ out' = out
          /\ goroutine' = goroutine
          /\ LET stack == goroutines'[goroutine].Signature.Stack
                 top == stack[Len(stack)]
             IN /\ top.SourcePath = SubSeq(LastLine, 2, ColonAt(LastLine) - 1)
                /\ top.Line = DecValue(LastLine[ColonAt(LastLine) + 1])]_vars


-----------------------------------------------------------------------------
(* Dumps printed at a non-zero column *)

\* The leading whitespace of the indented dumps read.
Prefix == "  "

HasPrefix(raw) == Len(raw) >= 1 /\ raw[1] = Prefix

\* The line is a routine header after the prefix.
IsPrefixedHeader(raw) == HasPrefix(raw) /\ IsHeader(Tail(raw))

\* The text is some lines without a header, then a dump whose header and
\* following lines all carry the prefix, up to the blank lines that end it.
IsEmbeddedDump(t, k) ==
    /\ k \in 1..Len(t)
    /\ IsPrefixedHeader(t[k])
    /\ \A j \in 1..(k - 1) : ~IsHeader(t[j]) /\ ~IsPrefixedHeader(t[j])
    /\ \A j \in (k + 1)..Len(t) : HasPrefix(t[j]) \/ t[j] = Blank

\* The same text with the prefix taken off the lines of the dump.
Unindent(t, k) ==
    [j \in 1..Len(t) |-> IF j >= k /\ HasPrefix(t[j]) THEN Tail(t[j]) ELSE t[j]]

\* C24: a dump whose header and following lines carry the same leading
\* whitespace is parsed into the same routines as the dump without the prefix,
\* and only the text before the header is written to out.
C24_IndentedDumpParsedAlike ==
    \A k \in 1..Len(text) :
        (ReturnedAtEnd /\ IsEmbeddedDump(text, k)) =>
            /\ goroutines = ParseDump(Unindent(text, k)).goroutines
            /\ err = ParseDump(Unindent(text, k)).err
            /\ out = SubSeq(text, 1, k - 1)

\* The text read so far ends with a prefixed header and a prefixed function
\* line: the routine waits for the file line of its first frame.
AfterPrefixedFuncLine ==
    /\ Len(text) >= 2
    /\ IsPrefixedHeader(text[Len(text) - 1])
    /\ HasPrefix(text[Len(text)])
    /\ IsFuncLine(Tail(text[Len(text)]))

\* C25: within a routine, a line whose leading whitespace does not start with
\* the prefix of the routine's header stops ParseDump with the error
\* "inconsistent indentation", and nothing is written to out.
C25_InconsistentIndentIsFatal ==
    [][(/\ Consumed
        /\ AfterPrefixedFuncLine
        /\ LastLine # Blank
        /\ ~HasPrefix(LastLine)) =>
          /\ pc' = "done"
          /\ err' = "inconsistent indentation"
          /\ out' = out]_vars


-----------------------------------------------------------------------------
(* Line endings *)

EndsWithCR(raw) == Len(raw) >= 1 /\ raw[Len(raw)] = "\r"

\* The same text with "\n" line endings: every raw line without its final "\r".
LFText(t) ==
    [i \in 1..Len(t) |-> IF EndsWithCR(t[i]) THEN SubSeq(t[i], 1, Len(t[i]) - 1) ELSE t[i]]

HasCR(s) == \E i \in 1..Len(s) : s[i] = "\r"

CallHasCR(c) == HasCR(c.SourcePath) \/ HasCR(c.Func.Raw) \/ HasCR(c.Args)

\* C26: parsing a text with "\r\n" line endings returns the routine list and
\* the error that parsing the same text with "\n" line endings returns, and no
\* state, function, argument or path of the list holds a carriage return.
C26_CRLFParsedAsLF ==
    (ReturnedAtEnd \/ pc = "panic") =>
        /\ goroutines = ParseDump(LFText(text)).goroutines
        /\ err = ParseDump(LFText(text)).err
        /\ pc = ParseDump(LFText(text)).pc
        /\ \A i \in 1..Len(goroutines) :
            LET sig == goroutines[i].Signature
            IN /\ ~HasCR(sig.State)
               /\ ~CallHasCR(sig.CreatedBy)
               /\ \A j \in 1..Len(sig.Stack) : ~CallHasCR(sig.Stack[j])

\* C26 witness: a text of five lines, each ending in "\r\n", was parsed into a
\* routine with a frame and a created-by, both with their source path.
C26_Witness ==
    /\ ParseSucceeded
    /\ Len(text) = 5
    /\ \A i \in 1..Len(text) : EndsWithCR(text[i])
    /\ Len(goroutines) = 1
    /\ Len(goroutines[1].Signature.Stack) = 1
    /\ goroutines[1].Signature.Stack[1] =
           Call(<<"/", "gopath", "/", "yaml", ".go">>, 153,
                Function(<<"gopkg.in/yaml%2ev2.handleErr">>), <<"0x433b20">>)
    /\ goroutines[1].Signature.CreatedBy =
           Call(<<"/", "gopath", "/", "yaml", ".go">>, 153, Function(<<"stack.New">>), EmptyStr)


-----------------------------------------------------------------------------
(* Long lines and the end of the input *)

\* C27: a line longer than the scanner's maximum token size that comes before
\* the dump does not end the parse: ParseDump does not return with the
\* scanner's "token too long" error and an empty list.
C27_LongLineDoesNotStop ==
    (pc = "done" /\ goroutines = <<>>) => err # "bufio.Scanner: token too long"


\* The step in which the reader has no more lines and has not failed.
EndOfInput ==
    /\ pc = "scan"
    /\ pc' = "done"
    /\ text' = text
    /\ err' \notin ReaderErrors

\* A routine is open and its top frame has its file line.
OpenWithCompleteFrame ==
    /\ goroutine # 0
    /\ goroutines[goroutine].Signature.Stack # <<>>
    /\ LET stack == goroutines[goroutine].Signature.Stack
       IN stack[Len(stack)].SourcePath # EmptyStr

\* C28: when the input ends while a routine with a complete frame is open,
\* ParseDump returns no error and the list it returns for the same input with a
\* blank line appended; when the input ends right after a header, the routine
\* is in the list with its ID, its state and no frames.
C28_EndOfInputClosesRoutine ==
    [][EndOfInput =>
          /\ OpenWithCompleteFrame =>
                /\ err' = "nil"
                /\ ParseDump(Append(text, Blank)).err = "nil"
                /\ goroutines' = ParseDump(Append(text, Blank)).goroutines
          /\ AfterHeader =>
                /\ err' = "nil"
                /\ Len(goroutines') = Len(goroutines)
                /\ goroutines'[goroutine] =
                       Goroutine(Signature(reRoutineHeader(input[Len(input)]).g2, <<>>, ZeroCall),
                                 Atoi(reRoutineHeader(input[Len(input)]).g1).val,
                                 goroutine = 1)]_vars

\* C28 witness: the input ended on the file line of the frame of the second
\* routine, and ParseDump returned both routines and no error.
C28_Witness ==
    /\ ParseSucceeded
    /\ goroutine = 2
    /\ Len(text) = 5
    /\ text[Len(text)] = FileYaml
    /\ Len(goroutines) = 2
    /\ goroutines[2].Signature.Stack # <<>>
    /\ goroutines[2].Signature.Stack[1].SourcePath # EmptyStr


\* The line consumed before this one was the file line of a created-by line of
\* the open routine.
AfterCreatedFile ==
    /\ goroutine # 0
    /\ Len(input) >= hdrAt[goroutine] + 2
    /\ IsFileLine(input[Len(input)])
    /\ IsCreatedLine(input[Len(input) - 1])

\* C29: after the file line of a created-by entry the routine is complete: the
\* next line does not change its Stack or its CreatedBy, and a blank line
\* returns the parser to the prelude.
C29_CompleteAfterCreatedFile ==
    [][(Consumed /\ AfterCreatedFile) =>
          /\ goroutines'[goroutine] = goroutines[goroutine]
          /\ LastLine = Blank => (goroutine' = 0 /\ pc' = "scan" /\ out' = out)]_vars


-----------------------------------------------------------------------------
(* Cancellation *)

\* C30: when the caller's cancellation signal fires while ParseDump runs,
\* ParseDump eventually returns the cancellation error.
C30_CancelStopsParse ==
    cancel ~> (pc = "done" /\ err = "context canceled")


-----------------------------------------------------------------------------
(* The created flag, aborts, and the keys of Bucketize *)

\* C37: a file line is stored into the CreatedBy of a routine only if the line
\* read just before it was a created-by line of that routine: otherwise the
\* file line leaves CreatedBy as it was.
C37_CreatedFlagDoesNotLeak ==
    [][(/\ Consumed
        /\ goroutine # 0
        /\ IsFileLine(LastLine)
        /\ ~AfterCreatedLine) =>
          goroutines'[goroutine].Signature.CreatedBy =
              goroutines[goroutine].Signature.CreatedBy]_vars

\* C38: ParseDump never aborts: a file line is never applied to the top call of
\* an empty stack.
C38_NeverAborts == pc # "panic"

\* The keys of the returned map that hold routine r.
KeysOf(r) ==
    {k \in DOMAIN bkOut : \E j \in 1..Len(bkOut[k].routines) : bkOut[k].routines[j] = r}

\* C40: after Bucketize every routine under a key has a signature Equal to the
\* key, no two keys are Equal, and two routines are under the same key if and
\* only if their signatures are Equal.
C40_BucketsAreEqualClasses ==
    Bucketized =>
        /\ \A k \in DOMAIN bkOut : \A j \in 1..Len(bkOut[k].routines) :
               Equal(bkOut[k].key, bkOut[k].routines[j].Signature)
        /\ \A k, l \in DOMAIN bkOut : k # l => ~Equal(bkOut[k].key, bkOut[l].key)
        /\ \A i, j \in 1..Len(bkIn) :
               (KeysOf(bkIn[i]) \cap KeysOf(bkIn[j]) # {})
                   <=> Equal(bkIn[i].Signature, bkIn[j].Signature)

\* C40 witness: of three routines, the first and the last have Equal
\* signatures and share a key, and the second, whose call differs from theirs
\* in its arguments only, has a key of its own.
C40_Witness ==
    /\ Bucketized
    /\ Len(bkIn) = 3
    /\ Len(bkOut) = 2
    /\ Equal(bkIn[1].Signature, bkIn[3].Signature)
    /\ bkIn[1].Signature = Signature(<<"r">>, <<CallBase>>, ZeroCall)
    /\ bkIn[2].Signature = Signature(<<"r">>, <<CallArgs>>, ZeroCall)
    /\ KeysOf(bkIn[1]) = KeysOf(bkIn[3])
    /\ KeysOf(bkIn[2]) # KeysOf(bkIn[1])


-----------------------------------------------------------------------------
(* Reports of the race detector *)

\* The text read so far holds the warning that opens a race report.
InRaceReport == \E k \in 1..Len(text) : text[k] = RaceWarning

\* C32: in a race report, a "Goroutine N (state) created at:" line gives one
\* routine with the ID and the state it reports, First only if it is the first
\* routine of the list, and the line is not written to out.
C32_RaceCreatedAtGivesRoutine ==
    [][(Consumed /\ goroutine = 0 /\ InRaceReport /\ LastLine = RaceCreatedAt) =>
          /\ Len(goroutines') = Len(goroutines) + 1
          /\ goroutines'[Len(goroutines')].ID = DecValue(RaceCreatedAt[2])
          /\ goroutines'[Len(goroutines')].Signature.State = <<RaceCreatedAt[4]>>
          /\ goroutines'[Len(goroutines')].First = (Len(goroutines) = 0)
          /\ out' = out]_vars


-----------------------------------------------------------------------------
(* The accessors of Function and Call *)

\* The import path of a function symbol as written: what stands before the
\* first "." that follows the last "/".
ImportPath(raw) ==
    LET from == IF Slashes(raw) = {} THEN 0 ELSE LastSlash(raw)
        dots == {i \in Dots(raw) : i > from}
    IN  IF dots = {} THEN raw
        ELSE SubSeq(raw, 1, (CHOOSE i \in dots : \A k \in dots : i <= k) - 1)

\* C34: IsPkgMain is true exactly when the import path of the function is
\* "main": not when only its last directory is main, nor when the package part
\* is main only after percent-decoding.
C34_IsPkgMainIffImportPathMain ==
    (ret.op = "IsPkgMain") =>
        /\ ~ret.panic
        /\ ret.val = (ImportPath(recv.Func.Raw) = <<"main">>)

\* The upper-case letters among the runes of the model.
UpperLetters == {"M", "H", "F", "R", "N"}

\* C35: IsExported is true exactly when the first rune of the name after the
\* receiver prefix is an upper-case letter, or the function is main.main.
C35_IsExportedIffUpperOrMainMain ==
    (ret.op = "IsExported" /\ ~ret.panic) =>
        ret.val = (\/ DecodeRuneInString(LastPart(Name(recv.Func).val)) \in UpperLetters
                   \/ recv.Func.Raw = <<"main", ".", "main">>)

\* C36: IsStdlib is true exactly when the source path lies inside the root
\* directory: the root is known and the path starts with the root and a
\* separator.
C36_IsStdlibIffUnderRoot ==
    (ret.op = "IsStdlib") =>
        /\ ~ret.panic
        /\ ret.val = (/\ goroot # EmptyStr
                      /\ StringsHasPrefix(recv.SourcePath, goroot \o <<"/">>))

\* C39: Name, PkgName, PkgDotName and IsExported return a value for every
\* function symbol ParseDump can store; none of them aborts.
C39_FunctionAccessorsDefined ==
    (ret.op \in {"Name", "PkgName", "PkgDotName", "IsExported"}) => ~ret.panic


-----------------------------------------------------------------------------
(* Names of pointer-valued arguments *)

\* The arguments of a call: the literals of its Args text.
ArgValues(c) == SelectSeq(c.Args, LAMBDA ch : ch # ", ")

\* The literals in the pointer range.
IsPtr(v) == v \in {"0x433b20"}

\* The name a Call carries for its j-th argument. Call keeps the text of the
\* arguments only: there is no name.
ArgName(c, j) == EmptyStr

\* The arguments of the stack of a routine: <<call, argument>> positions.
ArgsOfStack(stack) ==
    UNION {{<<k, j>> : j \in 1..Len(ArgValues(stack[k]))} : k \in 1..Len(stack)}

\* C33: within one routine's stack, pointer-valued arguments that repeat a
\* value carry one and the same synthetic name, pointer-valued arguments with
\* different values carry no common name, and an argument that is not
\* pointer-valued has no name.
C33_RepeatedPointersShareName ==
    ParseSucceeded =>
        \A i \in 1..Len(goroutines) :
            LET stack == goroutines[i].Signature.Stack
                val(p) == ArgValues(stack[p[1]])[p[2]]
                name(p) == ArgName(stack[p[1]], p[2])
            IN  \A p, q \in ArgsOfStack(stack) :
                    /\ (p # q /\ IsPtr(val(p)) /\ val(p) = val(q)) =>
                           name(p) = name(q) /\ name(p) # EmptyStr
                    /\ (IsPtr(val(p)) /\ IsPtr(val(q)) /\ val(p) # val(q)) =>
                           name(p) # name(q) \/ name(p) = EmptyStr
                    /\ ~IsPtr(val(p)) => name(p) = EmptyStr


-----------------------------------------------------------------------------
(* Two calls of ParseDump at once *)

\* Mutant of Locals: created is a package variable that both calls use.
LocalsCreatedShared(own, other) == [own EXCEPT !.created = other.created]

\* The variables a turn of the loop works on: goroutines, goroutine, scanner,
\* created and out belong to the call, and the package variables it reads, the
\* regular expressions and goroot, are never written.
Locals(own, other) == own

\* The texts the reader of the second call may hold.
SecondTexts ==
    { <<HdrWait100, FuncMain, FileYaml>>,
      <<FuncMain, HdrWait101, CreatedNew, FileYaml>> }

\* The second call before its first scanner.Scan().
SecondStart(raws) ==
    [st |-> ParseStart, input |-> raws, text |-> <<>>, mixed |-> FALSE]

\* One turn of the for loop of the second call.
SecondScan ==
    /\ second.st.pc = "scan"
    /\ second.input # <<>>
    /\ second' = [st |-> Feed(Locals(second.st, ParseNow), ScanLines(Head(second.input))),
                  input |-> Tail(second.input),
                  text |-> Append(second.text, Head(second.input)),
                  mixed |-> second.mixed \/ (pc = "scan" /\ created)]
    /\ UNCHANGED <<cancel, recv, goroot, ret>>
    /\ UNCHANGED <<parseVars, bucketVars, sigVars>>

\* The reader of the second call is at its end: the call returns.
SecondEOF ==
    /\ second.st.pc = "scan"
    /\ second.input = <<>>
    /\ second' = [second EXCEPT !.st.pc = "done"]
    /\ UNCHANGED <<cancel, recv, goroot, ret>>
    /\ UNCHANGED <<parseVars, bucketVars, sigVars>>

\* Two calls of ParseDump, the first on any input of at most MaxLines lines
\* drawn from PipeLines, the second on one of SecondTexts, their turns of the
\* loop in any order.
InitTwo ==
    /\ ParseInit
    /\ BucketIdle
    /\ SigIdle
    /\ cancel = FALSE
    /\ recv = ZeroCall
    /\ goroot = GoRoot
    /\ ret = NoRet
    /\ second \in {SecondStart(raws) : raws \in SecondTexts}

NextTwo ==
    \/ \E raw \in PipeLines : ScanBlank(raw, ScanLines(raw))
    \/ \E raw \in PipeLines : ScanPrelude(raw, ScanLines(raw))
    \/ \E raw \in PipeLines : ScanFile(raw, ScanLines(raw))
    \/ \E raw \in PipeLines : ScanCreated(raw, ScanLines(raw))
    \/ \E raw \in PipeLines : ScanFunc(raw, ScanLines(raw))
    \/ \E raw \in PipeLines : ScanJunk(raw, ScanLines(raw))
    \/ ScanEOF
    \/ ScanError
    \/ SecondScan
    \/ SecondEOF

SpecTwo == InitTwo /\ [][NextTwo]_vars

\* What a call of ParseDump hands to its caller: the routines, what it wrote
\* to out, and the error.
Returned(st) == <<st.goroutines, st.out, st.err>>

====
